---- MODULE Spec2Model ----
(***************************************************************************)
(* Model of the coin-rotation engine of binance_trade_bot:                 *)
(*   AutoTrader (auto_trader.py) and Strategy (strategies/default_strategy *)
(*   .py).  The exchange (BinanceAPIManager) and the database are external *)
(*   collaborators.  The ticker prices are the variable market, which      *)
(*   moves between handler calls (Tick) and which a handler call reads as  *)
(*   one snapshot; every other answer of the exchange (a balance, a        *)
(*   minimum notional, a fee, the outcome of an order) is an input of the  *)
(*   handler that asks for it.  A handler call is one step; call, orders,  *)
(*   events, scores and jump record what the call did until the driving    *)
(*   loop takes it back (Return).                                          *)
(*                                                                         *)
(* Spec and SpecWide run the handlers one after the other, over two and    *)
(* three coins; SpecConcurrent runs scout and bridge_scout as processes    *)
(* that give way where they wait for an order; SpecThresholds applies the  *)
(* threshold updater to any table of ratios; SpecScenario runs one scout   *)
(* on the inputs of the scoring scenarios.                                 *)
(*                                                                         *)
(* Python floats are modelled as exact rationals <<numerator, denominator>>*)
(* in lowest terms with a positive denominator.                            *)
(***************************************************************************)
EXTENDS Integers, Sequences, FiniteSets, TLC

\* ------------------------------------------------------------------ bounds
MaxPrice == 2        \* ticker and fill prices range over 1..MaxPrice
MaxBalance == 1      \* balances range over 0..MaxBalance
MaxNotional == 2     \* minimum notionals range over 0..MaxNotional

\* ------------------------------------------------------------- rationals
Abs(x) == IF x < 0 THEN -x ELSE x

RECURSIVE GCD(_, _)
GCD(a, b) == IF b = 0 THEN a ELSE GCD(b, a % b)

Rat(n, d) ==
    LET s == IF d < 0 THEN -1 ELSE 1
        g == GCD(Abs(n), Abs(d))
    IN <<(s * n) \div g, (s * d) \div g>>

Int2Rat(n) == <<n, 1>>
RAdd(x, y) == Rat(x[1] * y[2] + y[1] * x[2], x[2] * y[2])
RSub(x, y) == Rat(x[1] * y[2] - y[1] * x[2], x[2] * y[2])
RMul(x, y) == Rat(x[1] * y[1], x[2] * y[2])
RDiv(x, y) == Rat(x[1] * y[2], x[2] * y[1])
RLess(x, y) == x[1] * y[2] < y[1] * x[2]
RPos(x) == x[1] > 0

\* ------------------------------------------------------------------ values
\* Python's None: the empty tuple where a float is expected (a ticker price, a
\* ratio, the price of an order result), a string where a coin is expected.
None == <<>>
NoCoin == "None"

Prices == {<<n, 1>> : n \in 1..MaxPrice}
PriceOrNone == Prices \cup {None}
Balances == 0..MaxBalance
Notionals == 0..MaxNotional

\* ------------------------------------------------------------------ state
VARIABLES
    config,        \* static configuration (Config)
    coins,         \* the Coin table of the database, in enumeration order
    current_coin,  \* HeldPosition: db.get_current_coin(), None when unset
    ratio,         \* Pair.ratio for every pair, None when unset
    market,        \* the market: manager.get_ticker_price(coin + BRIDGE)
    pc,            \* "constructed", "running" (initialize returned), "exited"
    call,          \* the handler call that just returned (Idle when none):
                   \* its name, outcome and inputs
    orders,        \* the orders the last call placed, in order
    events,        \* the ScoutEvents the last call appended, in order
    scores,        \* the ratio_dict the last call of _jump_to_best_coin built
    jump,          \* the transaction_through_bridge call of the last call
    procs          \* where every handler activation stands, when scout and
                   \* bridge_scout are run as concurrent processes

vars == <<config, coins, current_coin, ratio, market, pc, call, orders, events, scores, jump, procs>>

CoinSet == {coins[i] : i \in 1..Len(coins)}
\* The Pair table: one pair for every ordered combination of two coins.
Pairs == {p \in CoinSet \X CoinSet : p[1] # p[2]}

Fees == {<<0, 1>>, <<1, 10>>}
Ticks == [CoinSet -> PriceOrNone]

\* The configurations: both scoring modes; the initial coin absent, supported
\* or unsupported.
Configs(supported) ==
    [USE_MARGIN : {"yes", "no"},
     CURRENT_COIN_SYMBOL : {"", "A", "X"},
     SUPPORTED_COIN_LIST : supported,
     SCOUT_MULTIPLIER : {<<5, 1>>},
     SCOUT_MARGIN : {<<4, 5>>}]

NoJump == [calls |-> 0]

\* The handler activations that may run at once: two scout cycles and one
\* bridge_scout.
Scouts == {"scout1", "scout2"}
Workers == Scouts \cup {"bridge_scout"}
Waiting == [pc |-> "idle"]

\* ------------------------------------------------------- the database
\* Coin.enabled: a coin is enabled when the configuration lists it.
enabled(coin) == coin \in config.SUPPORTED_COIN_LIST

\* db.get_pairs_from(coin): the pairs from coin to an enabled coin, in the
\* database's enumeration order.
get_pairs_from(coin) ==
    LET tos == SelectSeq(coins, LAMBDA t : t # coin /\ enabled(t))
    IN [i \in 1..Len(tos) |-> <<coin, tos[i]>>]

\* db.get_coins(): the enabled coins, in enumeration order.
get_coins == SelectSeq(coins, enabled)

\* ------------------------------------------------ threshold initializer
\* Faulty variant: the ratio is computed the wrong way round.
initialize_single_pair_inverted(pair, old, tick) ==
    IF ~enabled(pair[1]) \/ ~enabled(pair[2]) THEN old
    ELSE IF tick[pair[1]] = None THEN old
    ELSE IF tick[pair[2]] = None THEN old
    ELSE RDiv(tick[pair[2]], tick[pair[1]])

initialize_single_pair(pair, old, tick) ==
    IF ~enabled(pair[1]) \/ ~enabled(pair[2]) THEN old
    ELSE IF tick[pair[1]] = None THEN old
    ELSE IF tick[pair[2]] = None THEN old
    ELSE RDiv(tick[pair[1]], tick[pair[2]])

\* Faulty variant: the query does not filter on Pair.ratio.is_(None).
initialize_trade_thresholds_unfiltered(r, tick) ==
    [p \in Pairs |-> initialize_single_pair(p, r[p], tick)]

initialize_trade_thresholds(r, tick) ==
    [p \in Pairs |->
        IF r[p] = None THEN initialize_single_pair(p, r[p], tick) ELSE r[p]]

\* ---------------------------------------------------- threshold updater
\* Faulty variant: the query filters on Pair.from_coin.
update_trade_threshold_from_coin(coin, coin_price, r, tick) ==
    IF coin_price = None THEN r
    ELSE [p \in Pairs |->
            IF p[1] = coin /\ tick[p[2]] # None
            THEN RDiv(tick[p[2]], coin_price)
            ELSE r[p]]

\* Faulty variant: the updater leaves every ratio alone.
update_trade_threshold_skipped(coin, coin_price, r, tick) == r

update_trade_threshold(coin, coin_price, r, tick) ==
    IF coin_price = None THEN r
    ELSE [p \in Pairs |->
            IF p[2] = coin /\ tick[p[1]] # None
            THEN RDiv(tick[p[1]], coin_price)
            ELSE r[p]]

\* --------------------------------------------------------- ratio engine
\* Faulty variant: the stored ratio is added, not subtracted, in multiplier
\* mode.
pair_score_sign(coin_price, optional_coin_price, stored, fee) ==
    LET coin_opt_coin_ratio == RDiv(coin_price, optional_coin_price)
        transaction_fee == RSub(RAdd(fee, fee), RMul(fee, fee))
    IN IF config.USE_MARGIN = "yes"
       THEN RSub(RSub(RDiv(RMul(RSub(Int2Rat(1), transaction_fee),
                                coin_opt_coin_ratio), stored),
                      Int2Rat(1)),
                 RDiv(config.SCOUT_MARGIN, Int2Rat(100)))
       ELSE RAdd(RSub(coin_opt_coin_ratio,
                      RMul(RMul(transaction_fee, config.SCOUT_MULTIPLIER),
                           coin_opt_coin_ratio)),
                 stored)

\* The score of one pair (auto_trader.py, the body of the loop of _get_ratios
\* after log_scout).  fee is what get_fee answers for both legs.
pair_score(coin_price, optional_coin_price, stored, fee) ==
    LET coin_opt_coin_ratio == RDiv(coin_price, optional_coin_price)
        from_fee == fee
        to_fee == fee
        transaction_fee == RSub(RAdd(from_fee, to_fee), RMul(from_fee, to_fee))
    IN IF config.USE_MARGIN = "yes"
       THEN RSub(RSub(RDiv(RMul(RSub(Int2Rat(1), transaction_fee),
                                coin_opt_coin_ratio), stored),
                      Int2Rat(1)),
                 RDiv(config.SCOUT_MARGIN, Int2Rat(100)))
       ELSE RSub(RSub(coin_opt_coin_ratio,
                      RMul(RMul(transaction_fee, config.SCOUT_MULTIPLIER),
                           coin_opt_coin_ratio)),
                 stored)

\* _get_ratios: the loop over db.get_pairs_from(coin), from index i on.  acc is
\* [dict, events, raised]: dict is ratio_dict as the sequence of its items in
\* insertion order; raised is TRUE when the arithmetic on an unset pair.ratio
\* raised TypeError, which ends the loop.
RECURSIVE get_ratios_from(_, _, _, _, _, _, _)
get_ratios_from(ps, i, coin_price, tick, fee, r, acc) ==
    IF i > Len(ps) THEN acc
    ELSE LET pair == ps[i]
             optional_coin_price == tick[pair[2]]
             logged == Append(acc.events, [pair |-> pair, ratio |-> r[pair]])
         IN IF optional_coin_price = None
            THEN get_ratios_from(ps, i + 1, coin_price, tick, fee, r, acc)
            ELSE IF r[pair] = None
            THEN [dict |-> acc.dict, events |-> logged, raised |-> TRUE]
            ELSE get_ratios_from(ps, i + 1, coin_price, tick, fee, r,
                    [dict |-> Append(acc.dict,
                                [pair |-> pair,
                                 score |-> pair_score(coin_price,
                                              optional_coin_price, r[pair], fee)]),
                     events |-> logged,
                     raised |-> FALSE])

get_ratios(coin, coin_price, tick, fee, r) ==
    get_ratios_from(get_pairs_from(coin), 1, coin_price, tick, fee, r,
                    [dict |-> <<>>, events |-> <<>>, raised |-> FALSE])

\* -------------------------------------------- bridge transaction executor
\* Faulty variant: the worth of the balance is not compared with the minimum
\* notional.
can_sell_any_balance(balance, from_coin_price, min_notional) == balance # 0

\* if balance and balance * from_coin_price > get_min_notional(...)
can_sell(balance, from_coin_price, min_notional) ==
    /\ balance # 0
    /\ RLess(Int2Rat(min_notional), RMul(Int2Rat(balance), from_coin_price))

\* Faulty variant: a failed sell does not end the call.
sell_failed_ignored(selling, sold) == FALSE

\* if can_sell and self.manager.sell_alt(...) is None: return None
sell_failed(selling, sold) == selling /\ ~sold

\* Faulty variant: the result of buy_alt is not tested.
buy_succeeded_always(bought) == TRUE

\* result = self.manager.buy_alt(...); if result is not None: commit
buy_succeeded(bought) == bought # None

\* Faulty variant: buy_alt is called before sell_alt.
transaction_through_bridge_buy_first(pair, cur, r, balance, min_notional, tick, sold, bought) ==
    LET from_coin_price == tick[pair[1]]
        none == [calls |-> 1, pair |-> pair, balance |-> balance,
                 from_coin_price |-> from_coin_price,
                 min_notional |-> min_notional,
                 can_sell |-> FALSE, outcome |-> "returned", result |-> None,
                 orders |-> <<>>, current_coin |-> cur, ratio |-> r]
    IN IF balance # 0 /\ from_coin_price = None
       THEN [none EXCEPT !.outcome = "raised"]
       ELSE
       LET selling == can_sell(balance, from_coin_price, min_notional)
           sell == IF selling
                   THEN <<[side |-> "sell", coin |-> pair[1], filled |-> sold]>>
                   ELSE <<>>
           buy == [side |-> "buy", coin |-> pair[2], filled |-> bought # None]
       IN IF ~buy_succeeded(bought)
          THEN [none EXCEPT !.can_sell = selling, !.orders = <<buy>>]
          ELSE IF sell_failed(selling, sold)
          THEN [none EXCEPT !.can_sell = selling, !.orders = <<buy>> \o sell]
          ELSE [none EXCEPT !.can_sell = selling,
                            !.orders = <<buy>> \o sell,
                            !.result = bought,
                            !.current_coin = pair[2],
                            !.ratio = update_trade_threshold(pair[2], bought, r, tick)]

\* transaction_through_bridge(pair) from the stored state (cur, r).  Inputs:
\* balance and min_notional of pair.from_coin, the ticker snapshot tick the
\* call reads, sold (whether sell_alt returns an order) and bought (the
\* price of the order buy_alt returns, None when it returns None).
\* outcome "raised": balance * from_coin_price with from_coin_price None.
transaction_through_bridge(pair, cur, r, balance, min_notional, tick, sold, bought) ==
    LET from_coin_price == tick[pair[1]]
        none == [calls |-> 1, pair |-> pair, balance |-> balance,
                 from_coin_price |-> from_coin_price,
                 min_notional |-> min_notional,
                 can_sell |-> FALSE, outcome |-> "returned", result |-> None,
                 orders |-> <<>>, current_coin |-> cur, ratio |-> r]
    IN IF balance # 0 /\ from_coin_price = None
       THEN [none EXCEPT !.outcome = "raised"]
       ELSE
       LET selling == can_sell(balance, from_coin_price, min_notional)
           sell == IF selling
                   THEN <<[side |-> "sell", coin |-> pair[1], filled |-> sold]>>
                   ELSE <<>>
           buy == [side |-> "buy", coin |-> pair[2], filled |-> bought # None]
       IN IF sell_failed(selling, sold)
          THEN [none EXCEPT !.can_sell = selling, !.orders = sell]
          ELSE IF buy_succeeded(bought)
          THEN [none EXCEPT !.can_sell = selling,
                            !.orders = Append(sell, buy),
                            !.result = bought,
                            !.current_coin = pair[2],
                            !.ratio = update_trade_threshold(pair[2], bought, r, tick)]
          ELSE [none EXCEPT !.can_sell = selling, !.orders = Append(sell, buy)]

\* ---------------------------------------------------------- jump selector
\* Faulty variant: every score is kept.
positive_scores_unfiltered(dict) == dict

\* ratio_dict = {k: v for k, v in ratio_dict.items() if v > 0}
positive_scores(dict) == SelectSeq(dict, LAMBDA e : RPos(e.score))

\* Faulty variant: the first positive item is taken, not the greatest.
best_pair_first(dict) == dict[1].pair

\* max(ratio_dict, key=ratio_dict.get): the first item, in insertion order,
\* whose score no other item exceeds.
best_pair(dict) ==
    LET i == CHOOSE i \in 1..Len(dict) :
                /\ \A j \in 1..Len(dict) : ~RLess(dict[i].score, dict[j].score)
                /\ \A j \in 1..(i - 1) : RLess(dict[j].score, dict[i].score)
    IN dict[i].pair

\* _jump_to_best_coin(coin, coin_price) without its call of the executor:
\* the ratio_dict _get_ratios returned (empty when it raised), the events
\* logged, whether it raised, and the pair to jump to (None when no score is
\* positive).
jump_to_best_coin(coin, coin_price, tick, fee, r) ==
    LET g == get_ratios(coin, coin_price, tick, fee, r)
        pos == positive_scores(g.dict)
    IN [dict |-> IF g.raised THEN <<>> ELSE g.dict,
        events |-> g.events, raised |-> g.raised,
        best |-> IF g.raised \/ pos = <<>> THEN None ELSE best_pair(pos)]

\* ------------------------------------------------------------ bridge scout
\* AutoTrader.bridge_scout: the loop over db.get_coins(), from index i on.
\* The answers of get_min_notional are drawn where the code asks for them:
\* mins holds the answers given so far (one per coin asked about), and the
\* operator yields the set of the results the call can have.  acc is
\* [events, visited]: the events logged so far and, for every coin whose
\* ratio_dict was built, whether it holds a positive score.  A result is the
\* coin bought with the idle bridge balance (NoCoin when there is none), with
\* events, visited, mins and whether _get_ratios raised.
RECURSIVE bridge_scout_from(_, _, _, _, _, _, _, _)
bridge_scout_from(cs, i, tick, fee, r, mins, bridge_balance, acc) ==
    IF i > Len(cs)
    THEN {[coin |-> NoCoin, events |-> acc.events, visited |-> acc.visited,
           mins |-> mins, raised |-> FALSE]}
    ELSE LET coin == cs[i]
             current_coin_price == tick[coin]
         IN IF current_coin_price = None
            THEN bridge_scout_from(cs, i + 1, tick, fee, r, mins,
                                   bridge_balance, acc)
            ELSE LET g == get_ratios(coin, current_coin_price, tick, fee, r)
                     logged == acc.events \o g.events
                     positive == positive_scores(g.dict) # <<>>
                     seen == Append(acc.visited,
                                    [coin |-> coin, positive |-> positive,
                                     scored |-> Len(g.dict)])
                 IN IF g.raised
                    THEN {[coin |-> NoCoin, events |-> logged,
                           visited |-> acc.visited, mins |-> mins,
                           raised |-> TRUE]}
                    ELSE IF positive
                    THEN bridge_scout_from(cs, i + 1, tick, fee, r, mins,
                                           bridge_balance,
                                           [events |-> logged, visited |-> seen])
                    ELSE UNION {
                           LET answers == [c \in DOMAIN mins \cup {coin} |->
                                             IF c = coin THEN min_notional
                                             ELSE mins[c]]
                           IN IF bridge_balance > min_notional
                              THEN {[coin |-> coin, events |-> logged,
                                     visited |-> seen, mins |-> answers,
                                     raised |-> FALSE]}
                              ELSE bridge_scout_from(cs, i + 1, tick, fee, r,
                                       answers, bridge_balance,
                                       [events |-> logged, visited |-> seen])
                           : min_notional \in (IF coin \in DOMAIN mins
                                               THEN {mins[coin]}
                                               ELSE Notionals)}

\* Faulty variant: bridge_balance >= get_min_notional(...) in place of >.
bridge_scout_at_threshold(tick, fee, r, mins, bridge_balance) ==
    bridge_scout_from(get_coins, 1, tick, fee, r, mins, bridge_balance + 1,
                      [events |-> <<>>, visited |-> <<>>])

bridge_scout(tick, fee, r, mins, bridge_balance) ==
    bridge_scout_from(get_coins, 1, tick, fee, r, mins, bridge_balance,
                      [events |-> <<>>, visited |-> <<>>])

\* --------------------------------------------------------------- Strategy
\* Strategy.initialize_current_coin from the stored coin cur.  choice is what
\* random.choice(SUPPORTED_COIN_LIST) draws, bought whether buy_alt fills.
\* Faulty variant: the symbol is not tested against SUPPORTED_COIN_LIST.
initialize_current_coin_unchecked(cur, choice, bought) ==
    LET current_coin_symbol ==
            IF config.CURRENT_COIN_SYMBOL = "" THEN choice
            ELSE config.CURRENT_COIN_SYMBOL
    IN IF cur # NoCoin
       THEN [current_coin |-> cur, orders |-> <<>>, exited |-> FALSE]
       ELSE [current_coin |-> current_coin_symbol,
             orders |-> IF config.CURRENT_COIN_SYMBOL = ""
                        THEN <<[side |-> "buy", coin |-> current_coin_symbol,
                                filled |-> bought]>>
                        ELSE <<>>,
             exited |-> current_coin_symbol \notin config.SUPPORTED_COIN_LIST]

\* Faulty variant: the stored coin is not looked at, and the first purchase is
\* made whatever the configuration says.
initialize_current_coin_always(cur, choice, bought) ==
    LET current_coin_symbol ==
            IF config.CURRENT_COIN_SYMBOL = "" THEN choice
            ELSE config.CURRENT_COIN_SYMBOL
    IN IF current_coin_symbol \notin config.SUPPORTED_COIN_LIST
       THEN [current_coin |-> cur, orders |-> <<>>, exited |-> TRUE]
       ELSE [current_coin |-> current_coin_symbol,
             orders |-> <<[side |-> "buy", coin |-> current_coin_symbol,
                           filled |-> bought]>>,
             exited |-> FALSE]

initialize_current_coin(cur, choice, bought) ==
    LET current_coin_symbol ==
            IF config.CURRENT_COIN_SYMBOL = "" THEN choice
            ELSE config.CURRENT_COIN_SYMBOL
    IN IF cur # NoCoin
       THEN [current_coin |-> cur, orders |-> <<>>, exited |-> FALSE]
       ELSE IF current_coin_symbol \notin config.SUPPORTED_COIN_LIST
       THEN [current_coin |-> cur, orders |-> <<>>, exited |-> TRUE]
       ELSE [current_coin |-> current_coin_symbol,
             orders |-> IF config.CURRENT_COIN_SYMBOL = ""
                        THEN <<[side |-> "buy", coin |-> current_coin_symbol,
                                filled |-> bought]>>
                        ELSE <<>>,
             exited |-> FALSE]

\* Strategy.scout up to the call of the executor: the price of the held coin
\* and what _jump_to_best_coin decides.
scout(cur, tick, fee, r) ==
    LET current_coin_price == tick[cur]
    IN IF current_coin_price = None
       THEN [dict |-> <<>>, events |-> <<>>, raised |-> FALSE, best |-> None]
       ELSE jump_to_best_coin(cur, current_coin_price, tick, fee, r)

\* Faulty variant: the guard is missing.
holds_position_never(balance, min_notional) == FALSE

\* Strategy.bridge_scout: the guard on the balance of the held coin.
holds_position(balance, min_notional) == balance > min_notional

\* Faulty variant: the coin returned is stored without the test for None.
set_after_bridge_scout_unchecked(cur, new_coin) == new_coin

\* Strategy.bridge_scout: the coin it stores after super().bridge_scout()
\* returned new_coin.
set_after_bridge_scout(cur, new_coin) ==
    IF new_coin # NoCoin THEN new_coin ELSE cur

\* ---------------------------------------------------------------- actions
\* call when no handler runs: the driving loop is between two jobs.
Idle == [op |-> "idle", outcome |-> "returned"]

\* After construction: a database whose pairs have no ratio yet, with or
\* without a stored current coin.
Constructed ==
    /\ ratio = [p \in Pairs |-> None]
    /\ market \in Ticks
    /\ pc = "constructed"
    /\ call = Idle
    /\ orders = <<>>
    /\ events = <<>>
    /\ scores = <<>>
    /\ jump = NoJump
    /\ procs = [w \in Workers |-> Waiting]

\* Two coins, both supported.
Init ==
    /\ coins = <<"A", "B">>
    /\ config \in Configs({{"A", "B"}})
    /\ current_coin \in {NoCoin, "B"}
    /\ Constructed

\* Three coins; C is supported, or is a coin of the database that the
\* configuration no longer lists (disabled).
InitWide ==
    /\ coins = <<"A", "B", "C">>
    /\ config \in {c \in Configs({{"A", "B", "C"}, {"A", "B"}}) :
                      c.CURRENT_COIN_SYMBOL = ""}
    /\ current_coin = NoCoin
    /\ Constructed

\* The market moves: the ticker of one coin changes, or becomes unavailable.
Tick ==
    /\ pc \in {"constructed", "running"}
    /\ call = Idle
    /\ \E coin \in CoinSet :
         \E price \in PriceOrNone \ {market[coin]} :
            market' = [market EXCEPT ![coin] = price]
    /\ UNCHANGED <<config, coins, current_coin, ratio, pc, call, orders,
                   events, scores, jump, procs>>

\* The handler has returned to the driving loop, which waits for its next job.
Return ==
    /\ pc \in {"constructed", "running"}
    /\ call # Idle
    /\ call' = Idle
    /\ orders' = <<>>
    /\ events' = <<>>
    /\ scores' = <<>>
    /\ jump' = NoJump
    /\ UNCHANGED <<config, coins, current_coin, ratio, market, pc, procs>>

\* Strategy.initialize(): AutoTrader.initialize, then initialize_current_coin.
\* The driving loop calls it in the states of when.
Initialize(when) ==
    /\ pc \in when
    /\ call = Idle
    /\ \E choice \in (IF current_coin = NoCoin /\ config.CURRENT_COIN_SYMBOL = ""
                      THEN config.SUPPORTED_COIN_LIST ELSE {NoCoin}),
          bought \in (IF current_coin = NoCoin /\ config.CURRENT_COIN_SYMBOL = ""
                      THEN BOOLEAN ELSE {FALSE}) :
       \E c \in {initialize_current_coin(current_coin, choice, bought)} :
            /\ ratio' = initialize_trade_thresholds(ratio, market)
            /\ current_coin' = c.current_coin
            /\ orders' = c.orders
            /\ pc' = IF c.exited THEN "exited" ELSE "running"
            /\ call' = [op |-> "initialize",
                        outcome |-> IF c.exited THEN "exit" ELSE "returned"]
            /\ events' = <<>>
            /\ scores' = <<>>
            /\ jump' = NoJump
            /\ UNCHANGED <<config, coins, market, procs>>

\* Strategy.scout(); the driving loop goes on in state after.  An input the
\* call does not read is drawn as zero.
Scout(after) ==
    /\ pc = "running"
    /\ call = Idle
    /\ pc' = after
    /\ UNCHANGED <<config, coins, market, procs>>
    /\ \E fee \in Fees :
       \E s \in {scout(current_coin, market, fee, ratio)} :
         LET c == [op |-> "scout", outcome |-> "returned", fee |-> fee]
         IN /\ s.dict = <<>> => fee = Int2Rat(0)
            /\ events' = s.events
            /\ scores' = s.dict
            /\ IF s.best = None
               THEN /\ call' = IF s.raised THEN [c EXCEPT !.outcome = "raised"]
                               ELSE c
                    /\ jump' = NoJump
                    /\ orders' = <<>>
                    /\ UNCHANGED <<current_coin, ratio>>
               ELSE \E balance \in Balances :
                    \E min_notional \in (IF balance = 0 THEN {0} ELSE Notionals) :
                    \E sold \in (IF market[s.best[1]] # None
                                    /\ can_sell(balance, market[s.best[1]],
                                                min_notional)
                                 THEN BOOLEAN ELSE {FALSE}) :
                    \E bought \in PriceOrNone :
                    \E t \in {transaction_through_bridge(s.best, current_coin,
                                   ratio, balance, min_notional, market, sold,
                                   bought)} :
                         /\ call' = [c EXCEPT !.outcome = t.outcome]
                         /\ jump' = [f \in DOMAIN t \ {"orders", "current_coin",
                                                       "ratio", "outcome"}
                                        |-> t[f]]
                         /\ orders' = t.orders
                         /\ current_coin' = t.current_coin
                         /\ ratio' = t.ratio

\* Strategy.bridge_scout(); the driving loop goes on in state after.  An input
\* that cannot influence the call is drawn as zero.
BridgeScout(after) ==
    /\ pc = "running"
    /\ call = Idle
    /\ pc' = after
    /\ UNCHANGED <<config, coins, ratio, market, procs>>
    /\ scores' = <<>>
    /\ jump' = NoJump
    /\ \E balance \in Balances, min_notional \in Notionals :
         LET held == [c \in {current_coin} |-> min_notional]
         IN IF holds_position(balance, min_notional)
            THEN /\ call' = [op |-> "bridge_scout", outcome |-> "skipped",
                             balance |-> balance, mins |-> held]
                 /\ events' = <<>>
                 /\ orders' = <<>>
                 /\ UNCHANGED current_coin
            ELSE \E fee \in Fees, bridge_balance \in Balances :
                 \E b \in bridge_scout(market, fee, ratio, held, bridge_balance) :
                 \E bought \in (IF b.coin # NoCoin THEN BOOLEAN ELSE {FALSE}) :
                      /\ (\A i \in 1..Len(b.visited) : b.visited[i].positive)
                            => bridge_balance = 0
                      /\ (\A i \in 1..Len(b.visited) : b.visited[i].scored = 0)
                            => fee = Int2Rat(0)
                      /\ call' = [op |-> "bridge_scout",
                                  outcome |-> IF b.raised THEN "raised"
                                              ELSE "returned",
                                  balance |-> balance, mins |-> b.mins,
                                  fee |-> fee,
                                  bridge_balance |-> bridge_balance,
                                  visited |-> b.visited,
                                  new_coin |-> b.coin]
                      /\ events' = b.events
                      /\ orders' = IF b.coin # NoCoin
                                   THEN <<[side |-> "buy", coin |-> b.coin,
                                           filled |-> bought]>>
                                   ELSE <<>>
                      /\ current_coin' = set_after_bridge_scout(current_coin,
                                                                b.coin)

\* AutoTrader.update_trade_threshold(coin, coin_price) called on its own, with
\* any coin and any price, None included.
UpdateTradeThreshold ==
    /\ pc = "running"
    /\ call = Idle
    /\ \E coin \in CoinSet, coin_price \in PriceOrNone :
          /\ ratio' = update_trade_threshold(coin, coin_price, ratio, market)
          /\ call' = [op |-> "update_trade_threshold", outcome |-> "returned",
                      coin |-> coin, coin_price |-> coin_price]
    /\ pc' = "stopped"
    /\ UNCHANGED <<config, coins, current_coin, market, orders, events, scores,
                   jump, procs>>

\* ---------------------------------------- handlers as concurrent processes
\* scout and bridge_scout started by a driving loop that does not wait for the
\* handler it started before.  A handler gives way where it waits for the
\* exchange to answer an order; the code takes no lock and sets no flag.  The
\* record of the last call (call, orders, events, scores, jump) is not kept
\* here: procs holds what each activation has read and decided.

\* Strategy.scout up to the call of transaction_through_bridge: it reads the
\* current coin, the prices and the ratios and picks the pair to jump to.  A
\* cycle that finds nothing to do ends where it started.
ScoutStart(w) ==
    /\ pc = "running"
    /\ call = Idle
    /\ procs[w] = Waiting
    /\ \E fee \in Fees :
       \E s \in {scout(current_coin, market, fee, ratio)} :
          /\ s.best # None
          /\ procs' = [procs EXCEPT ![w] = [pc |-> "sell", pair |-> s.best]]
    /\ UNCHANGED <<config, coins, current_coin, ratio, market, pc, call,
                   orders, events, scores, jump>>

\* transaction_through_bridge up to the answer of sell_alt.
ExecutorSell(w) ==
    /\ pc = "running"
    /\ call = Idle
    /\ procs[w].pc = "sell"
    /\ \E balance \in Balances :
       \E min_notional \in (IF balance = 0 THEN {0} ELSE Notionals) :
       \E sold \in BOOLEAN :
          LET from_coin_price == market[procs[w].pair[1]]
          IN IF balance # 0 /\ from_coin_price = None
             THEN procs' = [procs EXCEPT ![w] = Waiting]
             ELSE LET selling == can_sell(balance, from_coin_price, min_notional)
                  IN procs' = [procs EXCEPT ![w] =
                                  IF sell_failed(selling, sold) THEN Waiting
                                  ELSE [pc |-> "buy", pair |-> procs[w].pair,
                                        can_sell |-> selling]]
    /\ UNCHANGED <<config, coins, current_coin, ratio, market, pc, call,
                   orders, events, scores, jump>>

\* transaction_through_bridge from the answer of buy_alt to its return.
ExecutorBuy(w) ==
    /\ pc = "running"
    /\ call = Idle
    /\ procs[w].pc = "buy"
    /\ \E bought \in PriceOrNone :
          IF buy_succeeded(bought)
          THEN /\ current_coin' = procs[w].pair[2]
               /\ ratio' = update_trade_threshold(procs[w].pair[2], bought,
                                                  ratio, market)
          ELSE UNCHANGED <<current_coin, ratio>>
    /\ procs' = [procs EXCEPT ![w] = Waiting]
    /\ UNCHANGED <<config, coins, market, pc, call, orders, events, scores,
                   jump>>

\* Strategy.bridge_scout up to super().bridge_scout(): it reads the current
\* coin and goes on when its balance does not exceed its minimum notional.
BridgeScoutStart(w) ==
    /\ pc = "running"
    /\ call = Idle
    /\ procs[w] = Waiting
    /\ \E balance \in Balances, min_notional \in Notionals :
          /\ ~holds_position(balance, min_notional)
          /\ procs' = [procs EXCEPT ![w] =
                          [pc |-> "scan", held |-> current_coin,
                           mins |-> [c \in {current_coin} |-> min_notional]]]
    /\ UNCHANGED <<config, coins, current_coin, ratio, market, pc, call,
                   orders, events, scores, jump>>

\* AutoTrader.bridge_scout: it reads the prices and the ratios, and returns the
\* coin it sent a buy order for.
BridgeScoutScan(w) ==
    /\ pc = "running"
    /\ call = Idle
    /\ procs[w].pc = "scan"
    /\ \E fee \in Fees, bridge_balance \in Balances :
       \E b \in bridge_scout(market, fee, ratio, procs[w].mins, bridge_balance) :
          procs' = [procs EXCEPT ![w] =
                       IF b.coin = NoCoin THEN Waiting
                       ELSE [pc |-> "set", held |-> procs[w].held,
                             new_coin |-> b.coin]]
    /\ UNCHANGED <<config, coins, current_coin, ratio, market, pc, call,
                   orders, events, scores, jump>>

\* Strategy.bridge_scout: set_current_coin(new_coin).
BridgeScoutSet(w) ==
    /\ pc = "running"
    /\ call = Idle
    /\ procs[w].pc = "set"
    /\ current_coin' = set_after_bridge_scout(current_coin, procs[w].new_coin)
    /\ procs' = [procs EXCEPT ![w] = Waiting]
    /\ UNCHANGED <<config, coins, ratio, market, pc, call, orders, events,
                   scores, jump>>

\* Any sequence of handler calls, over two coins.
Next == Tick \/ Return \/ Initialize({"constructed", "running"}) \/ Scout("running") \/ BridgeScout("running")

Spec == Init /\ [][Next]_vars

\* Initialization, then one scout cycle, over three coins.
NextWide == Tick \/ Return \/ Initialize({"constructed"}) \/ Scout("stopped")

SpecWide == InitWide /\ [][NextWide]_vars

\* The threshold updater on any table of ratios, over three coins: every
\* pair's ratio is unset or set, every price is known or not.
InitThresholds ==
    /\ coins = <<"A", "B", "C">>
    /\ config \in {c \in Configs({{"A", "B", "C"}}) : c.CURRENT_COIN_SYMBOL = ""}
    /\ current_coin \in CoinSet
    /\ ratio \in [Pairs -> {None, Int2Rat(1)}]
    /\ market \in Ticks
    /\ pc = "running"
    /\ call = Idle
    /\ orders = <<>>
    /\ events = <<>>
    /\ scores = <<>>
    /\ jump = NoJump
    /\ procs = [w \in Workers |-> Waiting]

NextThresholds == UpdateTradeThreshold

SpecThresholds == InitThresholds /\ [][NextThresholds]_vars

\* The scenarios of the scoring rule: two coins priced 8 or 10, every pair's
\* ratio 1 or 1.3, a current coin, and one scout cycle.
ScenarioPrices == {<<8, 1>>, <<10, 1>>}
ScenarioRatios == {<<1, 1>>, <<13, 10>>}

InitScenario ==
    /\ coins = <<"A", "B">>
    /\ config \in {c \in Configs({{"A", "B"}}) : c.CURRENT_COIN_SYMBOL = ""}
    /\ current_coin \in CoinSet
    /\ ratio \in [Pairs -> ScenarioRatios]
    /\ market \in [CoinSet -> ScenarioPrices]
    /\ pc = "running"
    /\ call = Idle
    /\ orders = <<>>
    /\ events = <<>>
    /\ scores = <<>>
    /\ jump = NoJump
    /\ procs = [w \in Workers |-> Waiting]

NextScenario == Scout("stopped")

SpecScenario == InitScenario /\ [][NextScenario]_vars

\* Initialization, then scout cycles and bridge_scout as concurrent processes,
\* over two coins, from a database without a current coin and a configuration
\* without an initial coin.
InitConcurrent ==
    /\ Init
    /\ config.CURRENT_COIN_SYMBOL = ""
    /\ current_coin = NoCoin

NextConcurrent ==
    \/ Tick
    \/ Return
    \/ Initialize({"constructed"})
    \/ \E w \in Scouts : ScoutStart(w)
    \/ \E w \in Scouts : ExecutorSell(w)
    \/ \E w \in Scouts : ExecutorBuy(w)
    \/ BridgeScoutStart("bridge_scout")
    \/ BridgeScoutScan("bridge_scout")
    \/ BridgeScoutSet("bridge_scout")

SpecConcurrent == InitConcurrent /\ [][NextConcurrent]_vars

\* ================================================================= claims
Sells(os) == {i \in 1..Len(os) : os[i].side = "sell"}
Buys(os) == {i \in 1..Len(os) : os[i].side = "buy"}
SellFailed(os) == \E i \in Sells(os) : ~os[i].filled
BuyFailed(os) == \E i \in Buys(os) : ~os[i].filled

\* C1: when transaction_through_bridge attempts the sell and sell_alt reports
\* no fill, the call returns None, places no buy order, and leaves the current
\* coin and every pair ratio as they were before the call.
C1_SellFailureAborts ==
    [][(jump'.calls = 1 /\ SellFailed(orders'))
         => /\ jump'.result = None
            /\ Buys(orders') = {}
            /\ current_coin' = current_coin
            /\ ratio' = ratio]_vars

C1_Witness ==
    /\ call.op = "scout"
    /\ jump.calls = 1
    /\ jump.can_sell
    /\ SellFailed(orders)

\* C2: when transaction_through_bridge returns an order (both legs succeeded),
\* the current coin is pair.to_coin and every pair into it whose from_coin has
\* a ticker price carries the ratio from_coin_price / result.price.
C2_CommitThenRecalibrate ==
    (jump.calls = 1 /\ jump.result # None)
      => /\ current_coin = jump.pair[2]
         /\ \A f \in CoinSet \ {jump.pair[2]} :
              market[f] # None
                => ratio[<<f, jump.pair[2]>>] = RDiv(market[f], jump.result)

C2_Witness ==
    /\ jump.calls = 1
    /\ jump.result # None
    /\ jump.can_sell
    /\ Len(orders) = 2
    /\ ratio[<<jump.pair[1], jump.pair[2]>>] # Int2Rat(1)

\* C3: when the buy leg fails, transaction_through_bridge returns None, the
\* current coin and the ratios are unchanged, buy_alt was called once, and the
\* sell order placed before it is still among the orders placed.
C3_BuyFailureAborts ==
    [][(jump'.calls = 1 /\ BuyFailed(orders'))
         => /\ jump'.result = None
            /\ current_coin' = current_coin
            /\ ratio' = ratio
            /\ Cardinality(Buys(orders')) = 1
            /\ jump'.can_sell
                 => /\ Cardinality(Sells(orders')) = 1
                    /\ orders'[1].side = "sell"
                    /\ orders'[1].filled]_vars

C3_Witness ==
    /\ jump.calls = 1
    /\ BuyFailed(orders)
    /\ jump.can_sell
    /\ Len(orders) = 2

\* C4 (its last clause): outside initialization the current coin is never
\* changed to a coin whose buy order was not confirmed in the same call.
C4_HeldChangesOnlyOnConfirmedBuy ==
    [][(current_coin' # current_coin /\ call'.op # "initialize")
         => \E i \in Buys(orders') :
               /\ orders'[i].coin = current_coin'
               /\ orders'[i].filled]_vars

\* C5: _jump_to_best_coin calls the executor exactly when some score of the
\* ratio_dict is positive, and then once, with a pair whose score is positive
\* and no smaller than any score of the ratio_dict.
RLeq(x, y) == x[1] * y[2] <= y[1] * x[2]

C5_JumpsToBestPositive ==
    call.op = "scout"
      => LET pos == {i \in 1..Len(scores) : scores[i].score[1] > 0}
         IN /\ (pos = {}) => jump.calls = 0
            /\ (pos # {})
                 => /\ jump.calls = 1
                    /\ \E i \in pos :
                         /\ scores[i].pair = jump.pair
                         /\ \A j \in 1..Len(scores) :
                              RLeq(scores[j].score, scores[i].score)

C5_Witness ==
    /\ call.op = "scout"
    /\ Len(scores) = 2
    /\ scores[1].score[1] > 0
    /\ ~RLeq(scores[2].score, scores[1].score)
    /\ jump.calls = 1
    /\ jump.pair = scores[2].pair

C5_WitnessNoJump ==
    /\ call.op = "scout"
    /\ Len(scores) = 2
    /\ jump.calls = 0

\* C6: a call of Strategy.bridge_scout during which the balance of the held
\* coin exceeds its minimum notional places no order and leaves the current
\* coin unchanged.
C6_BridgeScoutKeepsPosition ==
    [][(call'.op = "bridge_scout"
        /\ call'.balance > call'.mins[current_coin])
         => /\ orders' = <<>>
            /\ current_coin' = current_coin]_vars

C6_Witness ==
    /\ call.op = "bridge_scout"
    /\ call.outcome = "skipped"
    /\ call.balance > call.mins[current_coin]
    /\ \E c \in CoinSet : market[c] # None

\* C7: a run of initialize_trade_thresholds never changes a ratio that was set
\* before the run.
C7_InitializerKeepsSetRatios ==
    [][call'.op = "initialize"
         => \A p \in Pairs : ratio[p] # None => ratio'[p] = ratio[p]]_vars

C7_Witness ==
    /\ call.op = "initialize"
    /\ \E p \in Pairs :
         /\ ratio[p] # None
         /\ market[p[1]] # None
         /\ market[p[2]] # None
         /\ ratio[p] # RDiv(market[p[1]], market[p[2]])

\* C8 as stated: after a run of initialize_trade_thresholds every pair that was
\* unset and whose two ticker prices are available has the ratio
\* from_price / to_price, and a pair with an unavailable price is still unset.
C8_Original ==
    [][call'.op = "initialize"
         => \A p \in Pairs :
              ratio[p] = None
                => IF market[p[1]] # None /\ market[p[2]] # None
                   THEN ratio'[p] = RDiv(market[p[1]], market[p[2]])
                   ELSE ratio'[p] = None]_vars

\* C8 as amended: the same for the pairs whose two coins are enabled; a pair
\* with a disabled coin is still unset, whatever the prices.
C8_InitializerSetsEnabledPairs ==
    [][call'.op = "initialize"
         => \A p \in Pairs :
              ratio[p] = None
                => IF /\ enabled(p[1]) /\ enabled(p[2])
                      /\ market[p[1]] # None /\ market[p[2]] # None
                   THEN ratio'[p] = RDiv(market[p[1]], market[p[2]])
                   ELSE ratio'[p] = None]_vars

C8_Witness ==
    /\ call.op = "initialize"
    /\ \E p \in Pairs : ratio[p] # None /\ ratio[p] # Int2Rat(1)
    /\ \E p \in Pairs :
         /\ ~enabled(p[2])
         /\ market[p[1]] # None /\ market[p[2]] # None
         /\ ratio[p] = None

\* C9: once initialize has run, every pair the ratio engine evaluates (logs a
\* ScoutEvent for) has a set ratio.
C9_EvaluatedPairsHaveRatio ==
    \A i \in 1..Len(events) : events[i].ratio # None

\* C10: once Strategy.initialize has returned, the current coin is set, and
\* it stays set whatever scout and bridge_scout do.
C10_HeldNeverNullAfterInitialize ==
    pc \in {"running", "stopped"} => current_coin # NoCoin

C10_Witness ==
    /\ pc = "running"
    /\ call.op = "bridge_scout"
    /\ call.outcome = "returned"
    /\ call.new_coin = NoCoin
    /\ current_coin # NoCoin

\* C11: with no stored current coin and a configured CURRENT_COIN_SYMBOL that
\* is not in SUPPORTED_COIN_LIST, initialize exits the process: the current coin
\* stays unset and no order is placed; and no scout or bridge_scout call ever
\* starts while the current coin is unset.
C11_UnsupportedInitialCoinIsFatal ==
    [][/\ (/\ call'.op = "initialize"
           /\ current_coin = NoCoin
           /\ config.CURRENT_COIN_SYMBOL # ""
           /\ config.CURRENT_COIN_SYMBOL \notin config.SUPPORTED_COIN_LIST)
            => (/\ pc' = "exited"
                /\ call'.outcome = "exit"
                /\ current_coin' = NoCoin
                /\ orders' = <<>>)
       /\ (call'.op \in {"scout", "bridge_scout"}) => (current_coin # NoCoin)
       /\ (pc = "exited") => UNCHANGED vars]_vars

C11_Witness ==
    /\ pc = "exited"
    /\ call.op = "initialize"
    /\ config.CURRENT_COIN_SYMBOL = "X"
    /\ current_coin = NoCoin
    /\ \E p \in Pairs : ratio[p] # None

\* Whether the executor's inputs let it sell: a balance, worth more than the
\* minimum notional at the price of the from coin.
Sellable(j) ==
    /\ j.balance # 0
    /\ j.min_notional * j.from_coin_price[2] < j.balance * j.from_coin_price[1]

\* C12 as stated: a call of transaction_through_bridge that returns an order
\* placed exactly one sell and one buy order, a call that returns None placed
\* at most one of each, and no buy order precedes a sell order of the call.
C12_Original ==
    jump.calls = 1
      => /\ IF jump.result # None
            THEN Cardinality(Sells(orders)) = 1 /\ Cardinality(Buys(orders)) = 1
            ELSE Cardinality(Sells(orders)) <= 1 /\ Cardinality(Buys(orders)) <= 1
         /\ \A i \in Buys(orders) : \A j \in Sells(orders) : j < i

\* C12 as amended: a call that returns an order placed exactly one buy order
\* and one sell order when the position was sellable, none when it was not; a
\* call that returns None placed at most one of each; and no buy order
\* precedes a sell order of the call.
C12_OrdersPerExecution ==
    jump.calls = 1
      => /\ IF jump.result # None
            THEN /\ Cardinality(Buys(orders)) = 1
                 /\ Cardinality(Sells(orders)) = (IF Sellable(jump) THEN 1 ELSE 0)
            ELSE Cardinality(Sells(orders)) <= 1 /\ Cardinality(Buys(orders)) <= 1
         /\ \A i \in Buys(orders) : \A j \in Sells(orders) : j < i

C12_Witness ==
    /\ jump.calls = 1
    /\ jump.result # None
    /\ Sellable(jump)
    /\ Len(orders) = 2
    /\ orders[1].side = "sell"
    /\ orders[2].side = "buy"

\* C13: when transaction_through_bridge finds the balance of the from coin
\* zero, or worth less than the minimum notional, it places no sell order and
\* still calls buy_alt once; when that buy is filled the call returns the order
\* and the current coin is pair.to_coin, with the ratios into it recalibrated.
C13_SkippedSellStillBuys ==
    (/\ jump.calls = 1
     /\ jump.from_coin_price # None
     /\ \/ jump.balance = 0
        \/ jump.balance * jump.from_coin_price[1]
              < jump.min_notional * jump.from_coin_price[2])
      => /\ Sells(orders) = {}
         /\ Len(orders) = 1
         /\ orders[1].side = "buy"
         /\ orders[1].coin = jump.pair[2]
         /\ orders[1].filled
              => /\ jump.result # None
                 /\ current_coin = jump.pair[2]
                 /\ market[jump.pair[1]] # None
                      => ratio[jump.pair] = RDiv(market[jump.pair[1]], jump.result)
         /\ ~orders[1].filled => jump.result = None

C13_Witness ==
    /\ jump.calls = 1
    /\ jump.balance > 0
    /\ jump.balance * jump.from_coin_price[1]
          < jump.min_notional * jump.from_coin_price[2]
    /\ Len(orders) = 1
    /\ orders[1].filled
    /\ current_coin = jump.pair[2]

C13_WitnessNoBalance ==
    /\ jump.calls = 1
    /\ jump.balance = 0
    /\ Len(orders) = 1
    /\ orders[1].filled
    /\ current_coin = jump.pair[2]

\* The activations inside transaction_through_bridge.
InFlight(ps) == {w \in Scouts : ps[w].pc \in {"sell", "buy"}}
\* The activations whose sell order is placed and whose commit is to come.
Trading(ps) == {w \in Scouts : ps[w].pc = "buy" /\ ps[w].can_sell}
\* The current coin an activation read when it started.
ReadCoin(a) == IF a.pc \in {"sell", "buy"} THEN a.pair[1] ELSE a.held

\* C14: with scout cycles and bridge_scout run as concurrent processes, at
\* most one call of transaction_through_bridge is in flight; while a call is
\* between its sell order and its commit no other activation takes a step
\* (each of their steps reads or writes the current coin or the ratios); and
\* no activation stores a current coin over one that another activation
\* committed since it read the current coin.
C14_SingleFlight ==
    [][/\ Cardinality(InFlight(procs')) <= 1
       /\ \A w \in Trading(procs) :
             procs'[w] = procs[w] => procs' = procs
       /\ \A w \in Workers :
             (/\ procs[w].pc \in {"buy", "set"}
              /\ procs'[w] = Waiting
              /\ current_coin' # current_coin)
               => current_coin = ReadCoin(procs[w])]_vars

\* C15: update_trade_threshold(coin, coin_price) with a known price sets the
\* ratio of every pair into coin whose from coin has a ticker price to
\* from_coin_price / coin_price and leaves every other ratio as it was: that of
\* a pair into coin whose from coin has no price, and that of a pair into
\* another coin; with coin_price None it changes no ratio; it never changes
\* the current coin.
C15_UpdaterFrame ==
    [][call'.op = "update_trade_threshold"
         => /\ current_coin' = current_coin
            /\ (call'.coin_price = None) => (ratio' = ratio)
            /\ (call'.coin_price # None)
                 => \A p \in Pairs :
                      ratio'[p] = IF p[2] = call'.coin /\ market[p[1]] # None
                                  THEN RDiv(market[p[1]], call'.coin_price)
                                  ELSE ratio[p]]_vars

C15_Witness ==
    /\ call.op = "update_trade_threshold"
    /\ call.coin_price # None
    /\ \E p \in Pairs, q \in Pairs, o \in Pairs :
         /\ p[2] = call.coin /\ market[p[1]] # None
         /\ ratio[p] = RDiv(market[p[1]], call.coin_price)
         /\ ratio[p] # Int2Rat(1)
         /\ q[2] = call.coin /\ market[q[1]] = None /\ ratio[q] = Int2Rat(1)
         /\ o[2] # call.coin /\ ratio[o] = None

C15_WitnessUnknownPrice ==
    /\ call.op = "update_trade_threshold"
    /\ call.coin_price = None
    /\ \E p \in Pairs :
         p[2] = call.coin /\ market[p[1]] # None /\ ratio[p] = None

\* The pairs of a ratio_dict, or of the ScoutEvents, in order.
PairsOf(d) == [i \in 1..Len(d) |-> d[i].pair]
\* The pairs from coin to an enabled coin whose ticker price is available.
Available(coin, tick) ==
    SelectSeq(get_pairs_from(coin), LAMBDA p : tick[p[2]] # None)

\* What C16 says of one call of _get_ratios(coin, coin_price) made by scout.
RatioEngineContract ==
    /\ call'.outcome # "raised"
    /\ PairsOf(scores') = Available(current_coin, market)
    /\ PairsOf(events') = Available(current_coin, market)
    /\ \A i \in 1..Len(events') : events'[i].ratio = ratio[events'[i].pair]
    /\ (jump'.calls = 0) => (ratio' = ratio /\ current_coin' = current_coin)

\* C16: a call of _get_ratios made by scout returns a score for exactly the
\* pairs from the current coin whose to coin has a ticker price, without
\* failing; it logs one ScoutEvent, with the stored ratio, for each of them;
\* and it changes neither a ratio nor the current coin.
C16_RatioEngineScoresAvailablePairs ==
    [][(call'.op = "scout" /\ market[current_coin] # None)
         => RatioEngineContract]_vars

\* The same, for the calls in which every pair evaluated has a ratio.
C16_WhenRatiosAreSet ==
    [][(/\ call'.op = "scout"
        /\ market[current_coin] # None
        /\ \A i \in 1..Len(Available(current_coin, market)) :
              ratio[Available(current_coin, market)[i]] # None)
         => RatioEngineContract]_vars

C16_WitnessSkipped ==
    /\ call.op = "scout"
    /\ call.outcome = "returned"
    /\ Len(scores) = 1
    /\ Len(events) = 1
    /\ jump.calls = 0
    /\ Len(get_pairs_from(current_coin)) = 2
    /\ market[get_pairs_from(current_coin)[1][2]] = None
    /\ scores[1].pair = get_pairs_from(current_coin)[2]

\* Whether the i-th coin AutoTrader.bridge_scout built a ratio_dict for
\* qualifies: no positive score, and a minimum notional below the idle bridge
\* balance.
Qualifies(c, i) ==
    /\ ~c.visited[i].positive
    /\ c.mins[c.visited[i].coin] < c.bridge_balance

\* C17: a call of AutoTrader.bridge_scout places at most one buy order; the
\* coin it buys and returns is the first, in the order of db.get_coins(), that
\* qualifies, and the scan stops there; when it returns without a coin no
\* coin it looked at qualifies and no order is placed.
C17_BridgeScoutBuysFirstQualifying ==
    (call.op = "bridge_scout" /\ call.outcome # "skipped")
      => /\ Len(orders) <= 1
         /\ \A i \in 1..Len(orders) : orders[i].side = "buy"
         /\ \A i \in 1..(Len(call.visited) - 1) : ~Qualifies(call, i)
         /\ \A i, j \in 1..Len(call.visited) :
              \E k, l \in 1..Len(get_coins) :
                 /\ get_coins[k] = call.visited[i].coin
                 /\ get_coins[l] = call.visited[j].coin
                 /\ (i < j) => (k < l)
         /\ IF call.new_coin # NoCoin
            THEN /\ Len(orders) = 1
                 /\ orders[1].coin = call.new_coin
                 /\ call.visited # <<>>
                 /\ call.visited[Len(call.visited)].coin = call.new_coin
                 /\ Qualifies(call, Len(call.visited))
            ELSE /\ orders = <<>>
                 /\ \A i \in 1..Len(call.visited) : ~Qualifies(call, i)
                 /\ (call.outcome = "returned")
                      => \A c \in {get_coins[k] : k \in 1..Len(get_coins)} :
                            market[c] # None
                              => \E i \in 1..Len(call.visited) :
                                    call.visited[i].coin = c

C17_Witness ==
    /\ call.op = "bridge_scout"
    /\ call.outcome = "returned"
    /\ Len(call.visited) = 2
    /\ ~call.visited[1].positive
    /\ call.visited[1].scored = 1
    /\ call.mins[call.visited[1].coin] >= call.bridge_balance
    /\ call.new_coin = call.visited[2].coin
    /\ Len(orders) = 1

C17_WitnessNothingBought ==
    /\ call.op = "bridge_scout"
    /\ call.outcome = "returned"
    /\ Len(call.visited) = 2
    /\ call.new_coin = NoCoin
    /\ call.bridge_balance > 0

\* C18: in multiplier mode with zero fees the score of a pair is
\* coin_price / optional_coin_price - pair.ratio, and scout jumps exactly when
\* that is positive for some pair; with the current coin at 10, the other at 8
\* and ratio 1 the score is 1/4 and the jump is made, with ratio 1.3 the score
\* is -1/20 and no jump is made.
C18_MultiplierScoreIsCrossMinusRatio ==
    [][(/\ call'.op = "scout"
        /\ config.USE_MARGIN = "no"
        /\ call'.fee = Int2Rat(0)
        /\ market[current_coin] # None)
         => /\ \A i \in 1..Len(scores') :
                 LET p == scores'[i].pair
                 IN scores'[i].score
                      = RSub(RDiv(market[p[1]], market[p[2]]), ratio[p])
            /\ (jump'.calls = 1)
                 <=> \E p \in Pairs :
                        /\ p[1] = current_coin
                        /\ market[p[2]] # None
                        /\ ratio[p] # None
                        /\ RLess(ratio[p], RDiv(market[p[1]], market[p[2]]))
            /\ \A p \in Pairs :
                 (/\ p[1] = current_coin
                  /\ market[p[1]] = Int2Rat(10)
                  /\ market[p[2]] = Int2Rat(8))
                   => /\ (ratio[p] = Int2Rat(1))
                        => (/\ scores'[1].score = <<1, 4>>
                            /\ jump'.calls = 1
                            /\ jump'.pair = p)
                      /\ (ratio[p] = <<13, 10>>)
                        => (/\ scores'[1].score = <<-1, 20>>
                            /\ jump'.calls = 0)]_vars

C18_Witness ==
    /\ call.op = "scout"
    /\ config.USE_MARGIN = "no"
    /\ call.fee = Int2Rat(0)
    /\ Len(scores) = 1
    /\ scores[1].score = <<1, 4>>
    /\ market[scores[1].pair[1]] = Int2Rat(10)
    /\ market[scores[1].pair[2]] = Int2Rat(8)
    /\ jump.calls = 1

C18_WitnessNoJump ==
    /\ call.op = "scout"
    /\ config.USE_MARGIN = "no"
    /\ call.fee = Int2Rat(0)
    /\ Len(scores) = 1
    /\ scores[1].score = <<-1, 20>>
    /\ market[scores[1].pair[1]] = Int2Rat(10)
    /\ market[scores[1].pair[2]] = Int2Rat(8)
    /\ ratio[scores[1].pair] = <<13, 10>>
    /\ jump.calls = 0

\* C19: a call of Strategy.scout that finds the price of the current coin
\* unavailable, or no pair with a positive score, places no order and leaves
\* the current coin and every ratio as they were; and every call of scout calls
\* transaction_through_bridge at most once, placing at most one sell and one buy
\* order.
C19_ScoutWithoutJumpChangesNothing ==
    [][call'.op = "scout"
         => /\ jump'.calls \in {0, 1}
            /\ Cardinality(Sells(orders')) <= 1
            /\ Cardinality(Buys(orders')) <= 1
            /\ (\/ market[current_coin] = None
                \/ \A i \in 1..Len(scores') : scores'[i].score[1] <= 0)
                 => (/\ jump'.calls = 0
                     /\ orders' = <<>>
                     /\ current_coin' = current_coin
                     /\ ratio' = ratio)]_vars

C19_Witness ==
    /\ call.op = "scout"
    /\ call.outcome = "returned"
    /\ Len(scores) = 1
    /\ scores[1].score[1] <= 0
    /\ jump.calls = 0
    /\ orders = <<>>
    /\ ratio[scores[1].pair] # RDiv(market[scores[1].pair[1]],
                                    market[scores[1].pair[2]])

C19_WitnessNoPrice ==
    /\ call.op = "scout"
    /\ market[current_coin] = None
    /\ \E c \in CoinSet : market[c] # None
    /\ jump.calls = 0

\* C20: initialize_current_coin with a stored current coin leaves it as it
\* is and places no order; with none stored it places one buy order, for the
\* coin it stores, when CURRENT_COIN_SYMBOL is empty, and no order when
\* CURRENT_COIN_SYMBOL names the coin.
C20_InitializeCurrentCoinOnce ==
    [][call'.op = "initialize"
         => /\ (current_coin # NoCoin)
                 => (/\ current_coin' = current_coin
                     /\ orders' = <<>>
                     /\ pc' = "running")
            /\ (current_coin = NoCoin /\ config.CURRENT_COIN_SYMBOL # "")
                 => (/\ orders' = <<>>
                     /\ current_coin' \in {config.CURRENT_COIN_SYMBOL, NoCoin})
            /\ (current_coin = NoCoin /\ config.CURRENT_COIN_SYMBOL = "")
                 => (/\ Len(orders') = 1
                     /\ orders'[1].side = "buy"
                     /\ orders'[1].coin = current_coin'
                     /\ current_coin' \in config.SUPPORTED_COIN_LIST)]_vars

C20_Witness ==
    /\ call.op = "initialize"
    /\ config.CURRENT_COIN_SYMBOL = "A"
    /\ current_coin = "B"
    /\ orders = <<>>
    /\ \E p \in Pairs : ratio[p] # None /\ ratio[p] # Int2Rat(1)

C20_WitnessFirstPurchase ==
    /\ call.op = "initialize"
    /\ config.CURRENT_COIN_SYMBOL = ""
    /\ Len(orders) = 1
    /\ orders[1].coin = current_coin

C20_WitnessConfigured ==
    /\ call.op = "initialize"
    /\ config.CURRENT_COIN_SYMBOL = "A"
    /\ current_coin = "A"
    /\ orders = <<>>

====
